---- MODULE Spec2Model ----
(***************************************************************************)
(* Model of mcp-text-mirror: the `mirror` tool handler (handleReverse) and *)
(* the grapheme-cluster reversal it delegates to.                          *)
(*                                                                         *)
(* A text is a Go string: a sequence of bytes (0..255).  Decoding follows  *)
(* utf8.DecodeRune, classification and segmentation follow the UAX #29     *)
(* state machine of the segmentation library, the reversal follows         *)
(* uniseg.ReverseString, and the handler follows src/main.go.              *)
(***************************************************************************)
EXTENDS Integers, Sequences, FiniteSets, Bags, TLC

(***************************************************************************)
(* Bounds                                                                  *)
(***************************************************************************)
\* longest input, in chunks of Alphabet, of the single-call specification
MaxLen == 3
\* number of handler calls a behaviour of the concurrent specification starts
MaxCalls == 3

\* longest pattern, in chunks of Alphabet, of the table specification
MaxPatternLen == 3
\* most repetitions of a pattern in an input of the table specification
MaxRepeat == 3

\* longest revision of the build settings, in bytes
MaxRevisionLen == 8
\* most build settings
MaxSettings == 2

\* longest format string, in pieces of text and verbs
MaxFormatLen == 4
\* most arguments of a format
MaxArgs == 2

\* longest path, in names
MaxPathLen == 3
\* most lines a logger is given
MaxPrints == 2

(***************************************************************************)
(* UTF-8 decoding (utf8.DecodeRune)                                        *)
(***************************************************************************)
RuneError == 65533

\* number of bytes the lead byte announces; 0 for a byte that cannot lead
SizeOfLead(s0) ==
    IF s0 < 128 THEN 1
    ELSE IF s0 < 194 THEN 0
    ELSE IF s0 < 224 THEN 2
    ELSE IF s0 < 240 THEN 3
    ELSE IF s0 < 245 THEN 4
    ELSE 0

\* accepted range of the second byte after lead byte s0
AcceptLo(s0) == IF s0 = 224 THEN 160 ELSE IF s0 = 240 THEN 144 ELSE 128

AcceptHi(s0) == IF s0 = 237 THEN 159 ELSE IF s0 = 244 THEN 143 ELSE 191

IsContinuation(b) == b >= 128 /\ b <= 191

\* [r |-> code point, size |-> bytes consumed]; an invalid or truncated
\* sequence decodes to RuneError with size 1
DecodeRune(s) ==
    IF Len(s) < 1 THEN [r |-> RuneError, size |-> 0]
    ELSE LET s0 == s[1]
             sz == SizeOfLead(s0)
             bad == [r |-> RuneError, size |-> 1]
         IN  IF sz = 1 THEN [r |-> s0, size |-> 1]
             ELSE IF sz = 0 THEN bad
             ELSE IF Len(s) < sz THEN bad
             ELSE IF s[2] < AcceptLo(s0) \/ AcceptHi(s0) < s[2] THEN bad
             ELSE IF sz = 2
                  THEN [r |-> (s0 % 32) * 64 + (s[2] % 64), size |-> 2]
             ELSE IF ~IsContinuation(s[3]) THEN bad
             ELSE IF sz = 3
                  THEN [r |-> (s0 % 16) * 4096 + (s[2] % 64) * 64 + (s[3] % 64),
                        size |-> 3]
             ELSE IF ~IsContinuation(s[4]) THEN bad
             ELSE [r |-> (s0 % 8) * 262144 + (s[2] % 64) * 4096
                          + (s[3] % 64) * 64 + (s[4] % 64),
                   size |-> 4]

(***************************************************************************)
(* Grapheme break property of a code point (the rows of the Unicode        *)
(* grapheme property table that the code points of the model fall in)      *)
(***************************************************************************)
propertyGraphemes(r) ==
    IF r = 10 THEN "prLF"
    ELSE IF r = 13 THEN "prCR"
    ELSE IF r < 32 \/ (r >= 127 /\ r <= 159) THEN "prControl"
    ELSE IF r >= 768 /\ r <= 879 THEN "prExtend"
    ELSE IF r >= 1536 /\ r <= 1541 THEN "prPrepend"
    ELSE IF r = 2307 THEN "prSpacingMark"
    ELSE IF r >= 4352 /\ r <= 4447 THEN "prL"
    ELSE IF r >= 4448 /\ r <= 4519 THEN "prV"
    ELSE IF r >= 4520 /\ r <= 4607 THEN "prT"
    ELSE IF r = 8205 THEN "prZWJ"
    ELSE IF r >= 44032 /\ r <= 55203
         THEN IF (r - 44032) % 28 = 0 THEN "prLV" ELSE "prLVT"
    ELSE IF r >= 127462 /\ r <= 127487 THEN "prRegionalIndicator"
    ELSE IF r >= 128066 /\ r <= 128247 THEN "prExtendedPictographic"
    ELSE "prAny"

(***************************************************************************)
(* Grapheme cluster state machine                                          *)
(***************************************************************************)
NoTransition == [state |-> "none", boundary |-> FALSE, rule |-> -1]

Tr(s, b, n) == [state |-> s, boundary |-> b, rule |-> n]

\* the specific transitions, by rule of UAX #29
grTransitions(state, prop) ==
    CASE state = "grAny" /\ prop = "prCR" -> Tr("grCR", TRUE, 50)
      [] state = "grAny" /\ prop = "prLF" -> Tr("grControlLF", TRUE, 50)
      [] state = "grAny" /\ prop = "prControl" -> Tr("grControlLF", TRUE, 50)
      [] state = "grCR" /\ prop = "prAny" -> Tr("grAny", TRUE, 40)
      [] state = "grControlLF" /\ prop = "prAny" -> Tr("grAny", TRUE, 40)
      [] state = "grCR" /\ prop = "prLF" -> Tr("grControlLF", FALSE, 30)
      [] state = "grAny" /\ prop = "prL" -> Tr("grL", TRUE, 9990)
      [] state = "grL" /\ prop = "prL" -> Tr("grL", FALSE, 60)
      [] state = "grL" /\ prop = "prV" -> Tr("grLVV", FALSE, 60)
      [] state = "grL" /\ prop = "prLV" -> Tr("grLVV", FALSE, 60)
      [] state = "grL" /\ prop = "prLVT" -> Tr("grLVTT", FALSE, 60)
      [] state = "grAny" /\ prop = "prLV" -> Tr("grLVV", TRUE, 9990)
      [] state = "grAny" /\ prop = "prV" -> Tr("grLVV", TRUE, 9990)
      [] state = "grLVV" /\ prop = "prV" -> Tr("grLVV", FALSE, 70)
      [] state = "grLVV" /\ prop = "prT" -> Tr("grLVTT", FALSE, 70)
      [] state = "grAny" /\ prop = "prLVT" -> Tr("grLVTT", TRUE, 9990)
      [] state = "grAny" /\ prop = "prT" -> Tr("grLVTT", TRUE, 9990)
      [] state = "grLVTT" /\ prop = "prT" -> Tr("grLVTT", FALSE, 80)
      [] state = "grAny" /\ prop = "prExtend" -> Tr("grAny", FALSE, 90)
      [] state = "grAny" /\ prop = "prZWJ" -> Tr("grAny", FALSE, 90)
      [] state = "grAny" /\ prop = "prSpacingMark" -> Tr("grAny", FALSE, 91)
      [] state = "grAny" /\ prop = "prPrepend" -> Tr("grPrepend", TRUE, 9990)
      [] state = "grPrepend" /\ prop = "prAny" -> Tr("grAny", FALSE, 92)
      [] state = "grAny" /\ prop = "prExtendedPictographic"
            -> Tr("grExtendedPictographic", TRUE, 9990)
      [] state = "grExtendedPictographic" /\ prop = "prExtend"
            -> Tr("grExtendedPictographic", FALSE, 110)
      [] state = "grExtendedPictographic" /\ prop = "prZWJ"
            -> Tr("grExtendedPictographicZWJ", FALSE, 110)
      [] state = "grExtendedPictographicZWJ" /\ prop = "prExtendedPictographic"
            -> Tr("grExtendedPictographic", FALSE, 110)
      [] state = "grAny" /\ prop = "prRegionalIndicator"
            -> Tr("grRIOdd", TRUE, 9990)
      [] state = "grRIOdd" /\ prop = "prRegionalIndicator"
            -> Tr("grRIEven", FALSE, 120)
      [] state = "grRIEven" /\ prop = "prRegionalIndicator"
            -> Tr("grRIOdd", TRUE, 120)
      [] OTHER -> NoTransition

\* the transition taken from `state` on code point r: the specific one when
\* there is one, else the mix of (state, any property) and (any state, prop)
\* in which the lower rule number decides the boundary, else GB999
transitionGraphemeState(state, r) ==
    LET prop == propertyGraphemes(r)
        specific == grTransitions(state, prop)
        anyProp == grTransitions(state, "prAny")
        anyState == grTransitions("grAny", prop)
    IN  IF specific.state # "none"
        THEN [state |-> specific.state, boundary |-> specific.boundary]
        ELSE IF anyProp.state # "none" /\ anyState.state # "none"
        THEN [state |-> anyState.state,
              boundary |-> IF anyProp.rule < anyState.rule
                           THEN anyProp.boundary ELSE anyState.boundary]
        ELSE IF anyProp.state # "none"
        THEN [state |-> anyProp.state, boundary |-> anyProp.boundary]
        ELSE IF anyState.state # "none"
        THEN [state |-> anyState.state, boundary |-> anyState.boundary]
        ELSE [state |-> "grAny", boundary |-> TRUE]

\* the Go slice s[n:]
SliceFrom(s, n) == SubSeq(s, n + 1, Len(s))

RECURSIVE ClusterLoop(_, _, _)
\* the loop of FirstGraphemeCluster: `length` bytes of b belong to the
\* cluster so far; extend it code point by code point up to a boundary
ClusterLoop(b, length, state) ==
    LET d == DecodeRune(SliceFrom(b, length))
        t == transitionGraphemeState(state, d.r)
    IN  IF t.boundary THEN [length |-> length, state |-> t.state]
        ELSE IF Len(b) <= length + d.size
        THEN [length |-> Len(b), state |-> "grAny"]
        ELSE ClusterLoop(b, length + d.size, t.state)

\* FirstGraphemeCluster that drops a byte that does not decode
FirstGraphemeCluster_DropInvalid(b, state) ==
    IF Len(b) = 0
    THEN [cluster |-> <<>>, rest |-> <<>>, state |-> "grAny"]
    ELSE LET d == DecodeRune(b)
             bad == d.r = RuneError /\ d.size = 1
         IN  IF bad
             THEN [cluster |-> <<>>, rest |-> SliceFrom(b, 1), state |-> "grAny"]
             ELSE IF Len(b) <= d.size
             THEN [cluster |-> b, rest |-> <<>>, state |-> "grAny"]
             ELSE LET st == IF state = "start"
                            THEN transitionGraphemeState(state, d.r).state
                            ELSE state
                      c == ClusterLoop(b, d.size, st)
                  IN  [cluster |-> SubSeq(b, 1, c.length),
                       rest |-> SliceFrom(b, c.length),
                       state |-> c.state]

\* first cluster of b, the rest of b and the state to continue with;
\* state "start" is the unknown state (-1) of the first call
FirstGraphemeCluster(b, state) ==
    IF Len(b) = 0
    THEN [cluster |-> <<>>, rest |-> <<>>, state |-> "grAny"]
    ELSE LET d == DecodeRune(b)
         IN  IF Len(b) <= d.size
             THEN [cluster |-> b, rest |-> <<>>, state |-> "grAny"]
             ELSE LET st == IF state = "start"
                            THEN transitionGraphemeState(state, d.r).state
                            ELSE state
                      c == ClusterLoop(b, d.size, st)
                  IN  [cluster |-> SubSeq(b, 1, c.length),
                       rest |-> SliceFrom(b, c.length),
                       state |-> c.state]

(***************************************************************************)
(* Reversal (uniseg.ReverseString) and segmentation                        *)
(***************************************************************************)
\* copy(dst[index:], src)
Copy(dst, index, src) ==
    [i \in 1..Len(dst) |->
        IF i > index /\ i <= index + Len(src) THEN src[i - index] ELSE dst[i]]

RECURSIVE ReverseLoop(_, _, _, _)
\* one iteration per cluster: take the first cluster of what is left and
\* copy it in front of the clusters already placed at the end of the buffer
ReverseLoop(str, reversed, index, state) ==
    IF Len(str) = 0 THEN reversed
    ELSE LET f == FirstGraphemeCluster(str, state)
             idx == index - Len(f.cluster)
             rev == Copy(reversed, idx, f.cluster)
         IN  IF idx <= Len(f.rest) \div 2 THEN rev
             ELSE ReverseLoop(f.rest, rev, idx, f.state)

ReverseString(text) ==
    ReverseLoop(text, [i \in 1..Len(text) |-> 0], Len(text), "start")

RECURSIVE ClustersFrom(_, _)
ClustersFrom(str, state) ==
    IF Len(str) = 0 THEN <<>>
    ELSE LET f == FirstGraphemeCluster(str, state)
         IN  <<f.cluster>> \o ClustersFrom(f.rest, f.state)

\* the grapheme clusters of text, in order
Clusters(text) == ClustersFrom(text, "start")

(***************************************************************************)
(* Operators on sequences of clusters                                      *)
(***************************************************************************)
RECURSIVE Concat(_)
Concat(cs) == IF cs = <<>> THEN <<>> ELSE Head(cs) \o Concat(Tail(cs))

Rev(cs) == [i \in 1..Len(cs) |-> cs[Len(cs) + 1 - i]]

RECURSIVE BagOf(_)
BagOf(cs) ==
    IF cs = <<>> THEN EmptyBag ELSE SetToBag({Head(cs)}) (+) BagOf(Tail(cs))

(***************************************************************************)
(* Inputs                                                                  *)
(***************************************************************************)
\* UTF-8 encodings of code points of each class, and fragments of encodings
LetterA == <<97>>
CR == <<13>>
LF == <<10>>
CombiningAcute == <<204, 129>>
ArabicNumberSign == <<216, 128>>
ZWJ == <<226, 128, 141>>
RegionalJ == <<240, 159, 135, 175>>
RegionalP == <<240, 159, 135, 181>>
Woman == <<240, 159, 145, 169>>
HangulV == <<225, 133, 161>>
LoneContinuation == <<128>>
LoneLead == <<204>>

Alphabet ==
    {LetterA, CR, LF, CombiningAcute, ArabicNumberSign, ZWJ, RegionalJ,
     RegionalP, Woman, HangulV, LoneContinuation, LoneLead}

RECURSIVE TextsOf(_, _)
\* the texts made of at most n chunks of alphabet
TextsOf(alphabet, n) ==
    IF n = 0 THEN {<<>>}
    ELSE LET shorter == TextsOf(alphabet, n - 1)
         IN  shorter \cup {t \o c : t \in shorter, c \in alphabet}

Texts == TextsOf(Alphabet, MaxLen)

\* "Hello, World!" and its expected mirror "!dlroW ,olleH"
HelloWorld == <<72, 101, 108, 108, 111, 44, 32, 87, 111, 114, 108, 100, 33>>

DlroWolleH == <<33, 100, 108, 114, 111, 87, 32, 44, 111, 108, 108, 101, 72>>

\* "a\tb\tc"
TextWithTabs == <<97, 9, 98, 9, 99>>

\* a flag: a pair of regional indicators
Flags == {r1 \o r2 : r1, r2 \in {RegionalJ, RegionalP}}

RECURSIVE Repeat(_, _)
\* strings.Repeat
Repeat(s, n) == IF n = 0 THEN <<>> ELSE s \o Repeat(s, n - 1)

\* the code points the repeated patterns of the test table are made of
PatternAlphabet == {LetterA, CombiningAcute, RegionalJ, CR, LF}

Patterns == TextsOf(PatternAlphabet, MaxPatternLen)

\* the inputs of the table-driven test: ASCII sentences, texts of two
\* flags, and short patterns repeated
TableTexts ==
    {HelloWorld, TextWithTabs}
        \cup {f1 \o f2 : f1, f2 \in Flags}
        \cup {Repeat(pat, n) : pat \in Patterns, n \in 1..MaxRepeat}

\* the inputs of the concurrent callers: the empty text, a text the reversal
\* regroups, the fixed point it reverses to, and a text of two clusters
ConcTexts ==
    {<<>>, CombiningAcute \o LetterA, LetterA \o CombiningAcute, LetterA \o LF}

(***************************************************************************)
(* Errors: an error is the chain of its wrapping layers, outermost first;  *)
(* each layer is its message text.  The empty chain is the nil error.      *)
(***************************************************************************)
NilError == <<>>

ContextCanceled == <<"context canceled">>

\* errNilContext
ErrNilContext == <<"given context is nil">>

\* an error of the transport of the server
ErrTransport == <<"EOF">>

\* errors.Is: target is err itself or one of the errors it wraps
ErrorsIs(err, target) ==
    /\ target # NilError
    /\ \E k \in 1..Len(err) : SubSeq(err, k, Len(err)) = target

\* errTest of the tests
ErrTest == <<"test error">>

\* A format string is the sequence of its pieces: texts and the verbs %d, %s
\* and %%.  An argument is its dynamic type and its default text.
FormatPieces == {"failed at step ", "%d", "%s", "%%"}

FormatArgs ==
    {[type |-> "int", text |-> "42"], [type |-> "string", text |-> "ERR001"]}

RECURSIVE SeqsOf(_, _)
\* the sequences of at most n elements of set
SeqsOf(set, n) ==
    IF n = 0 THEN {<<>>}
    ELSE LET shorter == SeqsOf(set, n - 1)
         IN  shorter \cup {Append(q, x) : q \in shorter, x \in set}

RECURSIVE Join(_)
\* the format string as it is written
Join(pieces) ==
    IF pieces = <<>> THEN "" ELSE Head(pieces) \o Join(Tail(pieces))

\* what a verb prints for an argument: its text, or the bad-verb notice
\* when the type of the argument does not suit the verb
FormatVerb(verb, arg) ==
    IF verb = "%d"
    THEN IF arg.type = "int" THEN arg.text
         ELSE "%!d(" \o arg.type \o "=" \o arg.text \o ")"
    ELSE IF arg.type = "string" THEN arg.text
         ELSE "%!s(" \o arg.type \o "=" \o arg.text \o ")"

RECURSIVE ExtraArgs(_)
\* the arguments no verb used, as the EXTRA notice lists them
ExtraArgs(args) ==
    IF args = <<>> THEN ""
    ELSE Head(args).type \o "=" \o Head(args).text
             \o (IF Len(args) > 1 THEN ", " ELSE "") \o ExtraArgs(Tail(args))

RECURSIVE Sprintf(_, _)
\* fmt.Sprintf(format, args...): each verb takes the next argument, %% is a
\* percent sign, a verb without argument and arguments without verb leave
\* their notices
Sprintf(format, args) ==
    IF format = <<>>
    THEN IF args = <<>> THEN "" ELSE "%!(EXTRA " \o ExtraArgs(args) \o ")"
    ELSE LET piece == Head(format)
         IN  IF piece = "%%" THEN "%" \o Sprintf(Tail(format), args)
             ELSE IF piece \in {"%d", "%s"}
             THEN IF args = <<>>
                  THEN (IF piece = "%d" THEN "%!d(MISSING)"
                        ELSE "%!s(MISSING)") \o Sprintf(Tail(format), args)
                  ELSE FormatVerb(piece, Head(args))
                           \o Sprintf(Tail(format), Tail(args))
             ELSE piece \o Sprintf(Tail(format), args)

\* wrapError that formats the message whether or not there are arguments
wrapError_AlwaysFormat(err, msg, args) ==
    IF err = NilError THEN NilError
    ELSE <<Sprintf(msg, args) \o ": " \o err[1]>> \o err

\* fmt.Errorf("%s: %w", msg, err): the new layer carries the text and wraps
\* err
wrapError(err, msg, args) ==
    IF err = NilError THEN NilError
    ELSE LET text == IF Len(args) > 0 THEN Sprintf(msg, args) ELSE Join(msg)
         IN  <<text \o ": " \o err[1]>> \o err

(***************************************************************************)
(* The service version.  Strings are sequences of bytes.                   *)
(***************************************************************************)
\* "(devel)"
serviceVersion == <<40, 100, 101, 118, 101, 108, 41>>

revisionLen == 7

\* "unknown"
Unknown == <<117, 110, 107, 110, 111, 119, 110>>

\* "v1.2.3"
V123 == <<118, 49, 46, 50, 46, 51>>

\* "abcdef1234567890"
RevisionFull ==
    <<97, 98, 99, 100, 101, 102, 49, 50, 51, 52, 53, 54, 55, 56, 57, 48>>

Revisions == {SubSeq(RevisionFull, 1, n) : n \in 0..MaxRevisionLen}

BuildSettings ==
    [Key : {"vcs.revision", "some.other.key"}, Value : Revisions]

\* what debugReadBuildInfo returns when there is no build info
NoBuildInfo == [ok |-> FALSE, Version |-> <<>>, Settings |-> <<>>]

\* what debugReadBuildInfo may return: no build info, or a main version
\* and a list of settings
BuildInfos ==
    {NoBuildInfo}
        \cup {[ok |-> TRUE, Version |-> v, Settings |-> ss] :
                 v \in {<<>>, serviceVersion, V123},
                 ss \in UNION {[1..n -> BuildSettings] : n \in 0..MaxSettings}}

\* Go builtin min
Min(a, b) == IF a < b THEN a ELSE b

\* the slice expression s[:n]: a run-time panic when n is out of range
SliceTo(s, n) ==
    IF n <= Len(s)
    THEN [panic |-> FALSE, str |-> SubSeq(s, 1, n)]
    ELSE [panic |-> TRUE, str |-> <<>>]

RECURSIVE FirstRevision_Last(_, _)
\* the loop without its break: the last setting wins
FirstRevision_Last(settings, revision) ==
    IF settings = <<>> THEN revision
    ELSE LET s == Head(settings)
         IN  IF s.Key = "vcs.revision" /\ s.Value # <<>>
             THEN FirstRevision_Last(Tail(settings), s.Value)
             ELSE FirstRevision_Last(Tail(settings), revision)

RECURSIVE FirstRevision(_, _)
\* the loop over info.Settings: the first vcs.revision setting with a
\* non-empty value replaces the revision and ends the loop
FirstRevision(settings, revision) ==
    IF settings = <<>> THEN revision
    ELSE LET s == Head(settings)
         IN  IF s.Key = "vcs.revision" /\ s.Value # <<>>
             THEN s.Value
             ELSE FirstRevision(Tail(settings), revision)

\* fmt.Sprintf("%s (%s)", a, b)
SprintfParen(a, b) == a \o <<32, 40>> \o b \o <<41>>

\* fmt.Sprintf("%s %s", a, b)
SprintfSpace(a, b) == a \o <<32>> \o b

\* the revision sliced to revisionLen without the min
GetServiceVersion_NoMin(info) ==
    LET version == IF info.ok /\ info.Version # <<>>
                   THEN info.Version ELSE serviceVersion
        revision == IF info.ok THEN FirstRevision(info.Settings, Unknown)
                    ELSE Unknown
        short == SliceTo(revision, revisionLen)
    IN  IF short.panic THEN short
        ELSE IF info.ok /\ version # serviceVersion
             THEN [panic |-> FALSE, str |-> SprintfParen(version, short.str)]
             ELSE [panic |-> FALSE, str |-> SprintfSpace(short.str, version)]

GetServiceVersion(info) ==
    LET version == IF info.ok /\ info.Version # <<>>
                   THEN info.Version ELSE serviceVersion
        revision == IF info.ok THEN FirstRevision(info.Settings, Unknown)
                    ELSE Unknown
        short == SliceTo(revision, Min(Len(revision), revisionLen))
    IN  IF short.panic THEN short
        ELSE IF info.ok /\ version # serviceVersion
             THEN [panic |-> FALSE, str |-> SprintfParen(version, short.str)]
             ELSE [panic |-> FALSE, str |-> SprintfSpace(short.str, version)]

(***************************************************************************)
(* The handler and its callers                                             *)
(***************************************************************************)
Procs == {"p1", "p2"}

fileLogDefault == FALSE

VARIABLES
    env,        \* value of the MCP_TEXT_MIRROR_DEBUG_LOG environment variable
    logged,     \* what logger.Print was given, in call order
    pc,         \* position of each invocation of handleReverse
    ctx,        \* ctx.Err() of the invocation's context
    input,      \* input.Text
    outputText, \* the local outputText
    ret,        \* what the invocation returned
    prev,       \* input and output of the call whose output was fed back
    calls,      \* number of invocations started
    buildInfo,  \* what debugReadBuildInfo returns
    server,     \* the server newServer constructed, with its Version
    wrapCall,   \* a call of wrapError: its arguments and what it returned
    defaultCtx, \* the context main runs the server with
    mainPc,     \* position of main
    serverRan,  \* whether server.Run was called
    runServerErr, \* what runServer returned to run
    runErr,     \* what run returned to main
    fatals,     \* what logger.Fatal was given, in call order
    loggerCall, \* the arguments newLogger is called with
    newLog,     \* the logger newLogger returned: where it writes
    fs,         \* the file system: directories, files and their lines
    stderr      \* the lines written to standard error

vars ==
    <<env, logged, pc, ctx, input, outputText, ret, prev, calls, buildInfo,
      server, wrapCall, defaultCtx, mainPc, serverRan, runServerErr, runErr,
      fatals, loggerCall, newLog, fs, stderr>>

\* the variables of the functions called on their own
wrapVars == <<wrapCall>>

\* the variables of main
mainVars == <<defaultCtx, mainPc, serverRan, runServerErr, runErr, fatals>>

\* the variables of newLogger and of the logger it returns
loggerVars == <<loggerCall, newLog, fs, stderr>>

harnessVars == <<wrapVars, mainVars, loggerVars>>

\* no call of wrapError
NoWrapCall ==
    [called |-> FALSE, err |-> NilError, msg |-> <<>>, args |-> <<>>,
     result |-> NilError]

\* main is not running
MainIdle ==
    /\ defaultCtx = "background"
    /\ mainPc = "idle"
    /\ serverRan = FALSE
    /\ runServerErr = NilError
    /\ runErr = NilError
    /\ fatals = <<>>

\* the root directory; a path is the sequence of its names from the root
Root == <<>>

\* no logger made by newLogger
NoLogger == [out |-> "none", path |-> Root, printed |-> 0]

\* newLogger is not in use
LoggerIdle ==
    /\ loggerCall = [toFile |-> FALSE, path |-> Root]
    /\ newLog = NoLogger
    /\ fs = [dirs |-> {Root}, files |-> <<>>, locked |-> {}]
    /\ stderr = <<>>

\* nothing but the handler is in use
HarnessIdle == wrapCall = NoWrapCall /\ MainIdle /\ LoggerIdle

\* no server constructed yet
NoServer == [built |-> FALSE, panic |-> FALSE, Version |-> <<>>]

\* the server constructed with the given result of GetServiceVersion
Built(v) == [built |-> TRUE, panic |-> v.panic, Version |-> v.str]

\* debug mode compiled in as the default
IsDebugMode_DefaultOn == IF env # "" THEN TRUE ELSE ~fileLogDefault

IsDebugMode == IF env # "" THEN TRUE ELSE fileLogDefault

MirrorOutput(text) == [Text |-> text]

Returned(result, out, err) == [result |-> result, out |-> out, err |-> err]

NoReturn == Returned("nil", MirrorOutput(<<>>), NilError)

NoPrev == [chained |-> FALSE, in |-> <<>>, out |-> <<>>]

\* no invocation of the handler
HandlerIdle ==
    /\ env = ""
    /\ logged = <<>>
    /\ input = [p \in Procs |-> <<>>]
    /\ ctx = [p \in Procs |-> NilError]
    /\ pc = [p \in Procs |-> "idle"]
    /\ outputText = [p \in Procs |-> <<>>]
    /\ ret = [p \in Procs |-> NoReturn]
    /\ prev = [p \in Procs |-> NoPrev]
    /\ calls = 0

\* a caller invokes handleReverse(c, nil, MirrorInput{Text: t})
Call(p, t, c) ==
    /\ pc[p] \in {"idle", "returned"}
    /\ calls < MaxCalls
    /\ calls' = calls + 1
    /\ pc' = [pc EXCEPT ![p] = "entry"]
    /\ input' = [input EXCEPT ![p] = t]
    /\ ctx' = [ctx EXCEPT ![p] = c]
    /\ outputText' = [outputText EXCEPT ![p] = <<>>]
    /\ ret' = [ret EXCEPT ![p] = NoReturn]
    /\ prev' = [prev EXCEPT ![p] = NoPrev]
    /\ UNCHANGED <<env, logged, buildInfo, server>>
    /\ UNCHANGED harnessVars

\* a caller feeds the output of a successful call back: MirrorInput(out)
CallChained(p) ==
    /\ pc[p] = "returned"
    /\ ret[p].err = NilError
    /\ ~prev[p].chained
    /\ pc' = [pc EXCEPT ![p] = "entry"]
    /\ input' = [input EXCEPT ![p] = ret[p].out.Text]
    /\ outputText' = [outputText EXCEPT ![p] = <<>>]
    /\ ret' = [ret EXCEPT ![p] = NoReturn]
    /\ prev' = [prev EXCEPT ![p] =
                   [chained |-> TRUE, in |-> input[p], out |-> ret[p].out.Text]]
    /\ UNCHANGED <<env, logged, ctx, calls, buildInfo, server>>
    /\ UNCHANGED harnessVars

\* the caller cancels the context of an invocation in progress
Cancel(p) ==
    /\ pc[p] \notin {"idle", "returned"}
    /\ ctx[p] = NilError
    /\ ctx' = [ctx EXCEPT ![p] = ContextCanceled]
    /\ UNCHANGED <<env, logged, pc, input, outputText, ret, prev, calls,
                 buildInfo, server>>
    /\ UNCHANGED harnessVars

\* the environment variable is set or cleared
SetEnv(v) ==
    /\ env # v
    /\ env' = v
    /\ UNCHANGED <<logged, pc, ctx, input, outputText, ret, prev, calls,
                 buildInfo, server>>
    /\ UNCHANGED harnessVars

\* CheckContext without the early return: the error of the context is ignored
CheckContext_Ignored(p) ==
    /\ pc[p] = "entry"
    /\ pc' = [pc EXCEPT ![p] = "reverse"]
    /\ UNCHANGED <<env, logged, ctx, input, outputText, ret, prev, calls,
                 buildInfo, server>>
    /\ UNCHANGED harnessVars

\* CheckContext that also turns an empty text down
CheckContext_RejectEmpty(p) ==
    /\ pc[p] = "entry"
    /\ LET err == IF ctx[p] # NilError THEN ctx[p]
                  ELSE IF input[p] = <<>> THEN <<"text is empty">>
                  ELSE NilError
       IN  IF err # NilError
           THEN /\ ret' = [ret EXCEPT ![p] =
                             Returned("nil", MirrorOutput(<<>>),
                                      wrapError(err, <<"request canceled">>, <<>>))]
                /\ pc' = [pc EXCEPT ![p] = "returned"]
           ELSE /\ pc' = [pc EXCEPT ![p] = "reverse"]
                /\ UNCHANGED ret
    /\ UNCHANGED <<env, logged, ctx, input, outputText, prev, calls,
                 buildInfo, server>>
    /\ UNCHANGED harnessVars

\* CheckContext that writes the rejected text to the debug log
CheckContext_LogRejected(p) ==
    /\ pc[p] = "entry"
    /\ LET err == ctx[p]
       IN  IF err # NilError
           THEN /\ ret' = [ret EXCEPT ![p] =
                             Returned("nil", MirrorOutput(<<>>),
                                      wrapError(err, <<"request canceled">>, <<>>))]
                /\ pc' = [pc EXCEPT ![p] = "returned"]
                /\ logged' = IF IsDebugMode
                             THEN Append(logged, [original |-> input[p],
                                                  mirrored |-> <<>>])
                             ELSE logged
           ELSE /\ pc' = [pc EXCEPT ![p] = "reverse"]
                /\ UNCHANGED <<ret, logged>>
    /\ UNCHANGED <<env, ctx, input, outputText, prev, calls,
                 buildInfo, server>>
    /\ UNCHANGED harnessVars

\* err := ctx.Err(); if err != nil { return nil, MirrorOutput{}, wrapError(..) }
CheckContext(p) ==
    /\ pc[p] = "entry"
    /\ LET err == ctx[p]
       IN  IF err # NilError
           THEN /\ ret' = [ret EXCEPT ![p] =
                             Returned("nil", MirrorOutput(<<>>),
                                      wrapError(err, <<"request canceled">>, <<>>))]
                /\ pc' = [pc EXCEPT ![p] = "returned"]
           ELSE /\ pc' = [pc EXCEPT ![p] = "reverse"]
                /\ UNCHANGED ret
    /\ UNCHANGED <<env, logged, ctx, input, outputText, prev, calls,
                 buildInfo, server>>
    /\ UNCHANGED harnessVars

RECURSIVE RuneChunks(_)
\* the text rune by rune as a []rune conversion encodes it back: a byte that
\* does not decode becomes the three bytes of U+FFFD
RuneChunks(s) ==
    IF Len(s) = 0 THEN <<>>
    ELSE LET d == DecodeRune(s)
             chunk == IF d.r = RuneError /\ d.size = 1
                      THEN <<239, 191, 189>> ELSE SubSeq(s, 1, d.size)
         IN  <<chunk>> \o RuneChunks(SliceFrom(s, d.size))

RECURSIVE Runes(_)
\* the text code point by code point, each with its own bytes
Runes(s) ==
    IF Len(s) = 0 THEN <<>>
    ELSE LET d == DecodeRune(s)
         IN  <<SubSeq(s, 1, d.size)>> \o Runes(SliceFrom(s, d.size))

\* Reverse that reverses the code points of the text
Reverse_Runes(p) ==
    /\ pc[p] = "reverse"
    /\ outputText' = [outputText EXCEPT ![p] = Concat(Rev(Runes(input[p])))]
    /\ pc' = [pc EXCEPT ![p] = "log"]
    /\ UNCHANGED <<env, logged, ctx, input, ret, prev, calls,
                 buildInfo, server>>
    /\ UNCHANGED harnessVars

\* Reverse that reverses the bytes of the text
Reverse_Bytes(p) ==
    /\ pc[p] = "reverse"
    /\ outputText' = [outputText EXCEPT ![p] = Rev(input[p])]
    /\ pc' = [pc EXCEPT ![p] = "log"]
    /\ UNCHANGED <<env, logged, ctx, input, ret, prev, calls,
                 buildInfo, server>>
    /\ UNCHANGED harnessVars

\* Reverse that reverses the clusters of string([]rune(text))
Reverse_ViaRunes(p) ==
    /\ pc[p] = "reverse"
    /\ outputText' = [outputText EXCEPT ![p] =
                         ReverseString(Concat(RuneChunks(input[p])))]
    /\ pc' = [pc EXCEPT ![p] = "log"]
    /\ UNCHANGED <<env, logged, ctx, input, ret, prev, calls,
                 buildInfo, server>>
    /\ UNCHANGED harnessVars

\* Reverse that leaves the text as it is while debug mode is enabled
Reverse_UnlessDebug(p) ==
    /\ pc[p] = "reverse"
    /\ outputText' = [outputText EXCEPT ![p] =
                         IF IsDebugMode THEN input[p]
                         ELSE ReverseString(input[p])]
    /\ pc' = [pc EXCEPT ![p] = "log"]
    /\ UNCHANGED <<env, logged, ctx, input, ret, prev, calls,
                 buildInfo, server>>
    /\ UNCHANGED harnessVars

\* outputText := uniseg.ReverseString(input.Text)
Reverse(p) ==
    /\ pc[p] = "reverse"
    /\ outputText' = [outputText EXCEPT ![p] = ReverseString(input[p])]
    /\ pc' = [pc EXCEPT ![p] = "log"]
    /\ UNCHANGED <<env, logged, ctx, input, ret, prev, calls,
                 buildInfo, server>>
    /\ UNCHANGED harnessVars

\* debugLog("LOG: original text:", input.Text, "=> mirrored text:", outputText)
debugLog(p) ==
    /\ pc[p] = "log"
    /\ IF IsDebugMode
       THEN logged' = Append(logged,
                [original |-> input[p], mirrored |-> outputText[p]])
       ELSE UNCHANGED logged
    /\ pc' = [pc EXCEPT ![p] = "return"]
    /\ UNCHANGED <<env, ctx, input, outputText, ret, prev, calls,
                 buildInfo, server>>
    /\ UNCHANGED harnessVars

IsSpace(b) == b \in {9, 10, 11, 12, 13, 32}

RECURSIVE TrimLeft(_)
TrimLeft(s) ==
    IF Len(s) > 0 /\ IsSpace(s[1]) THEN TrimLeft(SliceFrom(s, 1)) ELSE s

\* strings.TrimSpace on ASCII white space
TrimSpace(s) == Rev(TrimLeft(Rev(TrimLeft(s))))

\* Return that trims the white space around the mirrored text
Return_TrimSpace(p) ==
    /\ pc[p] = "return"
    /\ ret' = [ret EXCEPT ![p] =
                  Returned("nil", MirrorOutput(TrimSpace(outputText[p])),
                           NilError)]
    /\ pc' = [pc EXCEPT ![p] = "returned"]
    /\ UNCHANGED <<env, logged, ctx, input, outputText, prev, calls,
                 buildInfo, server>>
    /\ UNCHANGED harnessVars

\* Return that answers with the input text
Return_Input(p) ==
    /\ pc[p] = "return"
    /\ ret' = [ret EXCEPT ![p] =
                  Returned("nil", MirrorOutput(input[p]), NilError)]
    /\ pc' = [pc EXCEPT ![p] = "returned"]
    /\ UNCHANGED <<env, logged, ctx, input, outputText, prev, calls,
                 buildInfo, server>>
    /\ UNCHANGED harnessVars

\* Return with outputText a variable shared by all invocations: it answers
\* with the text the latest reversal of any invocation left there
Return_SharedOutput(p) ==
    /\ pc[p] = "return"
    /\ \E q \in Procs :
          /\ pc[q] \in {"log", "return"}
          /\ ret' = [ret EXCEPT ![p] =
                        Returned("nil", MirrorOutput(outputText[q]), NilError)]
    /\ pc' = [pc EXCEPT ![p] = "returned"]
    /\ UNCHANGED <<env, logged, ctx, input, outputText, prev, calls,
                 buildInfo, server>>
    /\ UNCHANGED harnessVars

\* Return that looks at the context once more and gives the work up when
\* the context was cancelled in the meantime
Return_RecheckContext(p) ==
    /\ pc[p] = "return"
    /\ ret' = [ret EXCEPT ![p] =
                  IF ctx[p] # NilError
                  THEN Returned("nil", MirrorOutput(<<>>),
                                wrapError(ctx[p], <<"request canceled">>, <<>>))
                  ELSE Returned("nil", MirrorOutput(outputText[p]), NilError)]
    /\ pc' = [pc EXCEPT ![p] = "returned"]
    /\ UNCHANGED <<env, logged, ctx, input, outputText, prev, calls,
                 buildInfo, server>>
    /\ UNCHANGED harnessVars

\* return nil, MirrorOutput{Text: outputText}, nil
Return(p) ==
    /\ pc[p] = "return"
    /\ ret' = [ret EXCEPT ![p] =
                  Returned("nil", MirrorOutput(outputText[p]), NilError)]
    /\ pc' = [pc EXCEPT ![p] = "returned"]
    /\ UNCHANGED <<env, logged, ctx, input, outputText, prev, calls,
                 buildInfo, server>>
    /\ UNCHANGED harnessVars

handleReverse(p) ==
    \/ CheckContext(p)
    \/ Reverse(p)
    \/ debugLog(p)
    \/ Return(p)

\* newServer: the Version of the implementation is GetServiceVersion()
newServer ==
    /\ ~server.built
    /\ server' = Built(GetServiceVersion(buildInfo))
    /\ UNCHANGED <<env, logged, pc, ctx, input, outputText, ret, prev, calls,
                   buildInfo>>
    /\ UNCHANGED harnessVars

\* got := wrapError(test.err, test.msg, test.args...)
CallWrapError ==
    /\ ~wrapCall.called
    /\ wrapCall' = [wrapCall EXCEPT
                       !.called = TRUE,
                       !.result = wrapError(wrapCall.err, wrapCall.msg,
                                            wrapCall.args)]
    /\ UNCHANGED <<env, logged, pc, ctx, input, outputText, ret, prev, calls,
                   buildInfo, server>>
    /\ UNCHANGED <<mainVars, loggerVars>>

\* the variables of the handler and of the construction of the server
handlerVars ==
    <<env, logged, pc, ctx, input, outputText, ret, prev, calls, buildInfo>>

\* what server.Run(ctx, transport) returns: the error of a context already
\* cancelled; else nil when the session ends, or the error of the transport
ServerRun(c) ==
    IF c = "canceled" THEN {ContextCanceled} ELSE {NilError, ErrTransport}

\* err := runServer(ctx, server): errNilContext for the nil context, without
\* running the server, else what server.Run returns
runServer ==
    /\ mainPc = "run"
    /\ server.built
    /\ IF defaultCtx = "nil"
       THEN /\ runServerErr' = ErrNilContext
            /\ UNCHANGED serverRan
       ELSE /\ serverRan' = TRUE
            /\ \E e \in ServerRun(defaultCtx) : runServerErr' = e
    /\ mainPc' = "ran"
    /\ UNCHANGED <<defaultCtx, runErr, fatals>>
    /\ UNCHANGED <<handlerVars, server, wrapVars, loggerVars>>

\* run that returns a new error with the text of the error of runServer
run_TextOnly ==
    /\ mainPc = "ran"
    /\ runErr' = IF runServerErr # NilError
                 THEN <<"MCP server failed to run: " \o runServerErr[1]>>
                 ELSE NilError
    /\ mainPc' = "exitOnError"
    /\ UNCHANGED <<defaultCtx, serverRan, runServerErr, fatals>>
    /\ UNCHANGED <<handlerVars, server, wrapVars, loggerVars>>

\* if err != nil { return wrapError(err, "MCP server failed to run") }
\* return nil
run ==
    /\ mainPc = "ran"
    /\ runErr' = IF runServerErr # NilError
                 THEN wrapError(runServerErr,
                                <<"MCP server failed to run">>, <<>>)
                 ELSE NilError
    /\ mainPc' = "exitOnError"
    /\ UNCHANGED <<defaultCtx, serverRan, runServerErr, fatals>>
    /\ UNCHANGED <<handlerVars, server, wrapVars, loggerVars>>

\* if err != nil { logger.Fatal("Error:", err) }: Fatal ends the process
exitOnError ==
    /\ mainPc = "exitOnError"
    /\ IF runErr # NilError
       THEN /\ fatals' = Append(fatals, <<"Error:", runErr[1]>>)
            /\ mainPc' = "exit"
       ELSE /\ mainPc' = "return"
            /\ UNCHANGED fatals
    /\ UNCHANGED <<defaultCtx, serverRan, runServerErr, runErr>>
    /\ UNCHANGED <<handlerVars, server, wrapVars, loggerVars>>

RECURSIVE CleanFrom(_, _)
\* filepath.Clean of a rooted path, name by name: "." is dropped, ".." drops
\* the name before it and is dropped itself at the root
CleanFrom(path, done) ==
    IF path = <<>> THEN done
    ELSE IF Head(path) = "." THEN CleanFrom(Tail(path), done)
    ELSE IF Head(path) = ".."
    THEN CleanFrom(Tail(path),
                   IF done = <<>> THEN done
                   ELSE SubSeq(done, 1, Len(done) - 1))
    ELSE CleanFrom(Tail(path), Append(done, Head(path)))

Clean(path) == CleanFrom(path, Root)

\* os.OpenFile(path, O_APPEND|O_CREATE|O_WRONLY, 0644): it fails on a
\* directory, under what is not a directory, and on a file that may not be
\* written; else it opens the file, creating it empty when there is none
OpenFile(f, path) ==
    IF path \in f.dirs THEN [ok |-> FALSE, fs |-> f]
    ELSE IF SubSeq(path, 1, Len(path) - 1) \notin f.dirs
    THEN [ok |-> FALSE, fs |-> f]
    ELSE IF path \in DOMAIN f.files
    THEN [ok |-> path \notin f.locked, fs |-> f]
    ELSE [ok |-> TRUE, fs |-> [f EXCEPT !.files = (path :> <<>>) @@ f.files]]

\* newLogger that opens the file with O_TRUNC in place of O_APPEND
newLogger_Truncating ==
    /\ newLog.out = "none"
    /\ LET path == Clean(loggerCall.path)
           opened == OpenFile(fs, path)
       IN  IF loggerCall.toFile /\ opened.ok
           THEN /\ newLog' = [out |-> "file", path |-> path, printed |-> 0]
                /\ fs' = [opened.fs EXCEPT !.files[path] = <<>>]
           ELSE /\ newLog' = [out |-> "stderr", path |-> Root, printed |-> 0]
                /\ UNCHANGED fs
    /\ UNCHANGED <<loggerCall, stderr>>
    /\ UNCHANGED <<handlerVars, server, wrapVars, mainVars>>

\* newLogger(toFile, path): out is os.Stderr unless toFile is set and the
\* file at the cleaned path opens
newLogger ==
    /\ newLog.out = "none"
    /\ LET path == Clean(loggerCall.path)
           opened == OpenFile(fs, path)
       IN  IF loggerCall.toFile /\ opened.ok
           THEN /\ newLog' = [out |-> "file", path |-> path, printed |-> 0]
                /\ fs' = opened.fs
           ELSE /\ newLog' = [out |-> "stderr", path |-> Root, printed |-> 0]
                /\ UNCHANGED fs
    /\ UNCHANGED <<loggerCall, stderr>>
    /\ UNCHANGED <<handlerVars, server, wrapVars, mainVars>>

\* logger.Print(msg) on the logger newLogger returned: the line goes to the
\* end of the file, or to standard error
loggerPrint(msg) ==
    /\ newLog.out # "none"
    /\ newLog.printed < MaxPrints
    /\ newLog' = [newLog EXCEPT !.printed = @ + 1]
    /\ IF newLog.out = "file"
       THEN /\ fs' = [fs EXCEPT !.files[newLog.path] = Append(@, msg)]
            /\ UNCHANGED stderr
       ELSE /\ stderr' = Append(stderr, msg)
            /\ UNCHANGED fs
    /\ UNCHANGED loggerCall
    /\ UNCHANGED <<handlerVars, server, wrapVars, mainVars>>

(***************************************************************************)
(* Spec: one caller; the first input is any text of Texts, the context is  *)
(* live or cancelled on entry, and the output may be fed back once.        *)
(***************************************************************************)
Init ==
    /\ env \in {"", "debug.log"}
    /\ logged = <<>>
    /\ \E t \in Texts : input = [p \in Procs |-> IF p = "p1" THEN t ELSE <<>>]
    /\ \E c \in {NilError, ContextCanceled} :
           ctx = [p \in Procs |-> IF p = "p1" THEN c ELSE NilError]
    /\ pc = [p \in Procs |-> IF p = "p1" THEN "entry" ELSE "idle"]
    /\ outputText = [p \in Procs |-> <<>>]
    /\ ret = [p \in Procs |-> NoReturn]
    /\ prev = [p \in Procs |-> NoPrev]
    /\ calls = 1
    /\ buildInfo = NoBuildInfo
    /\ HarnessIdle
    /\ server = Built(GetServiceVersion(buildInfo))

Next ==
    \/ handleReverse("p1")
    \/ CallChained("p1")

Spec == Init /\ [][Next]_vars

(***************************************************************************)
(* TableSpec: as Spec, the first input being an entry of the test table.   *)
(***************************************************************************)
TableInit ==
    /\ env \in {"", "debug.log"}
    /\ logged = <<>>
    /\ \E t \in TableTexts :
           input = [p \in Procs |-> IF p = "p1" THEN t ELSE <<>>]
    /\ \E c \in {NilError, ContextCanceled} :
           ctx = [p \in Procs |-> IF p = "p1" THEN c ELSE NilError]
    /\ pc = [p \in Procs |-> IF p = "p1" THEN "entry" ELSE "idle"]
    /\ outputText = [p \in Procs |-> <<>>]
    /\ ret = [p \in Procs |-> NoReturn]
    /\ prev = [p \in Procs |-> NoPrev]
    /\ calls = 1
    /\ buildInfo = NoBuildInfo
    /\ HarnessIdle
    /\ server = Built(GetServiceVersion(buildInfo))

TableSpec == TableInit /\ [][Next]_vars

(***************************************************************************)
(* VersionSpec: the server is constructed under each build info.           *)
(***************************************************************************)
VersionInit ==
    /\ env = ""
    /\ logged = <<>>
    /\ input = [p \in Procs |-> <<>>]
    /\ ctx = [p \in Procs |-> NilError]
    /\ pc = [p \in Procs |-> "idle"]
    /\ outputText = [p \in Procs |-> <<>>]
    /\ ret = [p \in Procs |-> NoReturn]
    /\ prev = [p \in Procs |-> NoPrev]
    /\ calls = 0
    /\ buildInfo \in BuildInfos
    /\ server = NoServer
    /\ HarnessIdle

VersionNext == newServer

VersionSpec == VersionInit /\ [][VersionNext]_vars

(***************************************************************************)
(* WrapSpec: wrapError is called with each error, format and arguments.    *)
(***************************************************************************)
WrapInit ==
    /\ HandlerIdle
    /\ buildInfo = NoBuildInfo
    /\ server = Built(GetServiceVersion(buildInfo))
    /\ \E e \in {NilError, ErrTest, ContextCanceled},
          f \in SeqsOf(FormatPieces, MaxFormatLen),
          a \in SeqsOf(FormatArgs, MaxArgs) :
           wrapCall = [called |-> FALSE, err |-> e, msg |-> f, args |-> a,
                       result |-> NilError]
    /\ MainIdle
    /\ LoggerIdle

WrapNext == CallWrapError

WrapSpec == WrapInit /\ [][WrapNext]_vars

(***************************************************************************)
(* MainSpec: main runs the server with each context and each build info.   *)
(***************************************************************************)
MainInit ==
    /\ HandlerIdle
    /\ buildInfo \in BuildInfos
    /\ server = NoServer
    /\ wrapCall = NoWrapCall
    /\ defaultCtx \in {"nil", "background", "canceled"}
    /\ mainPc = "run"
    /\ serverRan = FALSE
    /\ runServerErr = NilError
    /\ runErr = NilError
    /\ fatals = <<>>
    /\ LoggerIdle

MainNext == newServer \/ runServer \/ run \/ exitOnError

MainSpec == MainInit /\ [][MainNext]_vars

(***************************************************************************)
(* LoggerSpec: newLogger is called with each path under each file system,  *)
(* and the logger it returns is written to.                                *)
(***************************************************************************)
PathNames == {".", "..", "tmp", "test.log"}

Paths == SeqsOf(PathNames, MaxPathLen)

LogFiles == {<<"test.log">>, <<"tmp", "test.log">>}

\* the file systems: the directory tmp is there or not, and each log file
\* under a directory is absent, present with a line, or present and not
\* writable
FileSystems ==
    {[dirs |-> {Root} \cup d,
      files |-> [p \in present |-> <<"old entry">>],
      locked |-> l] :
         d \in {{}, {<<"tmp">>}},
         present \in SUBSET LogFiles,
         l \in SUBSET LogFiles}
        \ {f \in [dirs : SUBSET {Root, <<"tmp">>},
                  files : UNION {[ps -> {<<"old entry">>}] :
                                    ps \in SUBSET LogFiles},
                  locked : SUBSET LogFiles] :
               \/ ~(f.locked \subseteq DOMAIN f.files)
               \/ \E p \in DOMAIN f.files :
                      SubSeq(p, 1, Len(p) - 1) \notin f.dirs}

LoggerInit ==
    /\ HandlerIdle
    /\ buildInfo = NoBuildInfo
    /\ server = Built(GetServiceVersion(buildInfo))
    /\ wrapCall = NoWrapCall
    /\ MainIdle
    /\ loggerCall \in [toFile : BOOLEAN, path : Paths]
    /\ newLog = NoLogger
    /\ fs \in FileSystems
    /\ stderr = <<>>

LoggerNext ==
    \/ newLogger
    \/ \E msg \in {"test log entry", "test message"} : loggerPrint(msg)

LoggerSpec == LoggerInit /\ [][LoggerNext]_vars

(***************************************************************************)
(* ConcSpec: the server runs invocations concurrently; callers start up to *)
(* MaxCalls calls on texts of ConcTexts, cancel contexts at any moment and *)
(* the debug environment variable changes at any moment.                   *)
(***************************************************************************)
ConcInit ==
    /\ env = ""
    /\ logged = <<>>
    /\ input = [p \in Procs |-> <<>>]
    /\ ctx = [p \in Procs |-> NilError]
    /\ pc = [p \in Procs |-> "idle"]
    /\ outputText = [p \in Procs |-> <<>>]
    /\ ret = [p \in Procs |-> NoReturn]
    /\ prev = [p \in Procs |-> NoPrev]
    /\ calls = 0
    /\ buildInfo = NoBuildInfo
    /\ HarnessIdle
    /\ server = Built(GetServiceVersion(buildInfo))

ConcNext ==
    \/ \E p \in Procs, t \in ConcTexts, c \in {NilError, ContextCanceled} :
           Call(p, t, c)
    \/ \E p \in Procs : Cancel(p)
    \/ \E v \in {"", "debug.log"} : SetEnv(v)
    \/ \E p \in Procs : handleReverse(p)

ConcSpec == ConcInit /\ [][ConcNext]_vars

(***************************************************************************)
(* LiveSpec: the concurrent callers with every invocation in progress      *)
(* scheduled again: the goroutine of a handler is not starved.  The inputs *)
(* are texts of at most one code point.                                    *)
(***************************************************************************)
LiveTexts == {<<>>, LetterA, Woman}

LiveNext ==
    \/ \E p \in Procs, t \in LiveTexts, c \in {NilError, ContextCanceled} :
           Call(p, t, c)
    \/ \E p \in Procs : Cancel(p)
    \/ \E v \in {"", "debug.log"} : SetEnv(v)
    \/ \E p \in Procs : handleReverse(p)

LiveSpec ==
    /\ ConcInit
    /\ [][LiveNext]_vars
    /\ \A p \in Procs : WF_vars(handleReverse(p))

(***************************************************************************)
(* Properties                                                              *)
(***************************************************************************)
\* an invocation that returned without error
Succeeded(p) == pc[p] = "returned" /\ ret[p].err = NilError

RECURSIVE ValidUTF8(_)
\* utf8.ValidString: every byte belongs to the encoding of a code point
ValidUTF8(s) ==
    IF Len(s) = 0 THEN TRUE
    ELSE LET d == DecodeRune(s)
         IN  /\ ~(d.r = RuneError /\ d.size = 1)
             /\ ValidUTF8(SliceFrom(s, d.size))

\* each two adjacent clusters of text, put in the opposite order, segment
\* on their own into the same two clusters
JunctionsStable(text) ==
    LET cs == Clusters(text)
    IN  \A i \in 1..(Len(cs) - 1) :
            Clusters(cs[i + 1] \o cs[i]) = <<cs[i + 1], cs[i]>>

\* the number of code points of a well-formed text
RECURSIVE RuneCount(_)
RuneCount(s) ==
    IF Len(s) = 0 THEN 0
    ELSE 1 + RuneCount(SliceFrom(s, DecodeRune(s).size))

\* C1: the text a successful call returns is the concatenation of the
\* grapheme clusters of its input taken back to front, each cluster with its
\* bytes unchanged.
C1_ClustersBackToFront ==
    \A p \in Procs :
        Succeeded(p) => ret[p].out.Text = Concat(Rev(Clusters(input[p])))

\* a call returned the reversal of a text of several clusters, one of them
\* of more than one code point, and the reversal differs from the text
C1_Witness ==
    /\ Succeeded("p1")
    /\ Len(Clusters(input["p1"])) >= 2
    /\ \E i \in 1..Len(Clusters(input["p1"])) :
           RuneCount(Clusters(input["p1"])[i]) >= 2
    /\ ret["p1"].out.Text # input["p1"]

\* C2: a call whose context is not cancelled returns a nil error, a nil
\* result and the text ReverseString(input.Text), for well-formed and
\* malformed input alike; a call fed with the output of a previous call
\* returns ReverseString(ReverseString(text)) of the first input.
C2_HandlerReturnsReverseString ==
    \A p \in Procs :
        (pc[p] = "returned" /\ ctx[p] = NilError) =>
            /\ ret[p].err = NilError
            /\ ret[p].result = "nil"
            /\ ret[p].out.Text = ReverseString(input[p])
            /\ prev[p].chained =>
                  /\ input[p] = prev[p].out
                  /\ ret[p].out.Text = ReverseString(ReverseString(prev[p].in))

\* the second of two chained calls returned, the first input being malformed
\* UTF-8 that the two reversals do not restore
C2_Witness ==
    /\ pc["p1"] = "returned"
    /\ ctx["p1"] = NilError
    /\ prev["p1"].chained
    /\ ~ValidUTF8(prev["p1"].in)
    /\ ret["p1"].out.Text # prev["p1"].in

\* C3: a call entered with a cancelled context returns an error that wraps
\* the error of the context, the zero MirrorOutput and a nil result, and
\* never reaches the reversal (nor the log), whatever the input text.
C3_CancelledOnEntry ==
    \A p \in Procs :
        ctx[p] = ContextCanceled =>
            /\ pc[p] \in {"entry", "returned"}
            /\ outputText[p] = <<>>
            /\ logged = <<>>
            /\ pc[p] = "returned" =>
                  /\ ret[p].err # NilError
                  /\ ErrorsIs(ret[p].err, ContextCanceled)
                  /\ ret[p].out = MirrorOutput(<<>>)
                  /\ ret[p].result = "nil"

\* a call on a text of several clusters returned the cancellation error
C3_Witness ==
    /\ pc["p1"] = "returned"
    /\ ctx["p1"] = ContextCanceled
    /\ Len(Clusters(input["p1"])) >= 2
    /\ ret["p1"].err = <<"request canceled: context canceled", "context canceled">>

\* C4 as stated: the clusters of reverse(text) are, as a multiset, the
\* clusters of text, for all texts.
C4_ClusterMultisetPreserved ==
    \A p \in Procs :
        Succeeded(p) =>
            BagOf(Clusters(ret[p].out.Text)) = BagOf(Clusters(input[p]))

\* C4 as amended: for a well-formed text whose adjacent clusters, swapped
\* pairwise, segment on their own into the same two clusters, the clusters
\* of reverse(text) are, as a multiset, the clusters of text.
C4_ClusterMultisetPreservedAtStableJunctions ==
    \A p \in Procs :
        (Succeeded(p) /\ ValidUTF8(input[p]) /\ JunctionsStable(input[p])) =>
            BagOf(Clusters(ret[p].out.Text)) = BagOf(Clusters(input[p]))

\* a well-formed text of at least three clusters with stable junctions, one
\* cluster of several code points, was reversed into a different text
C4_Witness ==
    /\ Succeeded("p1")
    /\ ~prev["p1"].chained
    /\ ValidUTF8(input["p1"])
    /\ JunctionsStable(input["p1"])
    /\ Len(Clusters(input["p1"])) >= 2
    /\ RuneCount(input["p1"]) > Len(Clusters(input["p1"]))
    /\ ret["p1"].out.Text # input["p1"]

LeadingExtend(text) ==
    /\ ValidUTF8(text)
    /\ Len(Clusters(text)) >= 2
    /\ propertyGraphemes(DecodeRune(text).r) = "prExtend"
    /\ propertyGraphemes(DecodeRune(Clusters(text)[2]).r)
          \notin {"prCR", "prLF", "prControl"}

RECURSIVE ByteBag(_)
ByteBag(s) ==
    IF Len(s) = 0 THEN EmptyBag
    ELSE SetToBag({Head(s)}) (+) ByteBag(Tail(s))

\* C7: the output has the byte length of the input and is a rearrangement
\* of its bytes cluster by cluster; no byte is added, dropped or replaced,
\* bytes that are not valid UTF-8 included.
C7_BytesPreserved ==
    \A p \in Procs :
        Succeeded(p) =>
            /\ Len(ret[p].out.Text) = Len(input[p])
            /\ ByteBag(ret[p].out.Text) = ByteBag(input[p])
            /\ ret[p].out.Text = Concat(Rev(Clusters(input[p])))

\* a malformed text of several clusters was reversed into a different text
C7_Witness ==
    /\ Succeeded("p1")
    /\ ~ValidUTF8(input["p1"])
    /\ Len(Clusters(input["p1"])) >= 2
    /\ ret["p1"].out.Text # input["p1"]
    /\ Len(ret["p1"].out.Text) = Len(input["p1"])

\* C8: segmentation partitions the text: the clusters concatenated in order
\* are the text, no cluster is empty, and the empty text has no cluster.
C8_SegmentationIsPartition ==
    \A p \in Procs :
        LET cs == Clusters(input[p])
        IN  /\ Concat(cs) = input[p]
            /\ \A i \in 1..Len(cs) : cs[i] # <<>>
            /\ input[p] = <<>> => cs = <<>>

\* a malformed text of several clusters, one of several code points, was
\* segmented by a reversal
C8_Witness ==
    /\ pc["p1"] = "log"
    /\ ~ValidUTF8(input["p1"])
    /\ Len(Clusters(input["p1"])) >= 2
    /\ \E i \in 1..Len(Clusters(input["p1"])) :
           Len(Clusters(input["p1"])[i]) >= 2

C10_ConcurrentCallsIndependent ==
    \A p \in Procs :
        /\ pc[p] \in {"log", "return"} => outputText[p] = ReverseString(input[p])
        /\ Succeeded(p) => ret[p].out.Text = ReverseString(input[p])

\* an invocation returned the reversal of its input while another one, on a
\* different text, was between its reversal and its return
C10_Witness ==
    /\ Succeeded("p1")
    /\ ret["p1"].out.Text # input["p1"]
    /\ pc["p2"] \in {"log", "return"}
    /\ input["p2"] # input["p1"]
    /\ outputText["p2"] # ret["p1"].out.Text

\* C11: a text that is exactly one grapheme cluster (a base with combining
\* marks, a ZWJ sequence, a pair of regional indicators, ...) is returned
\* unchanged.
C11_SingleClusterFixedPoint ==
    \A p \in Procs :
        (Succeeded(p) /\ Len(Clusters(input[p])) = 1) =>
            ret[p].out.Text = input[p]

\* a text of one cluster of three code points, not a palindrome of code
\* points, was reversed
C11_Witness ==
    /\ Succeeded("p1")
    /\ Len(Clusters(input["p1"])) = 1
    /\ RuneCount(input["p1"]) = 3
    /\ input["p1"] # Concat(Rev(Runes(input["p1"])))

\* C12: a text whose sequence of clusters reads the same in both directions
\* is returned unchanged.
C12_PalindromeFixedPoint ==
    \A p \in Procs :
        (Succeeded(p) /\ Clusters(input[p]) = Rev(Clusters(input[p]))) =>
            ret[p].out.Text = input[p]

\* a palindrome of three clusters, not all the same and one of several
\* bytes, whose bytes are not a palindrome, was reversed
C12_Witness ==
    /\ Succeeded("p1")
    /\ Len(Clusters(input["p1"])) = 3
    /\ Clusters(input["p1"]) = Rev(Clusters(input["p1"]))
    /\ Clusters(input["p1"])[1] # Clusters(input["p1"])[2]
    /\ input["p1"] # Rev(input["p1"])

\* C13: reversing the empty text gives the empty text and no error.
C13_EmptyText ==
    \A p \in Procs :
        (pc[p] = "returned" /\ ctx[p] = NilError /\ input[p] = <<>>) =>
            /\ ret[p].err = NilError
            /\ ret[p].result = "nil"
            /\ ret[p].out.Text = <<>>

\* a first call on the empty text returned, with debug mode enabled
C13_Witness ==
    /\ pc["p1"] = "returned"
    /\ ctx["p1"] = NilError
    /\ ~prev["p1"].chained
    /\ input["p1"] = <<>>
    /\ Len(logged) = 1

\* a base character: a code point of no special class, or a pictograph
IsBase(r) ==
    propertyGraphemes(r) \in {"prAny", "prExtendedPictographic"}

\* the text is well-formed and made of base characters, each followed by
\* zero or more combining (Extend) marks
IsBasesWithMarks(text) ==
    /\ ValidUTF8(text)
    /\ Len(text) > 0
    /\ IsBase(DecodeRune(text).r)
    /\ \A i \in 1..Len(Runes(text)) :
           \/ IsBase(DecodeRune(Runes(text)[i]).r)
           \/ propertyGraphemes(DecodeRune(Runes(text)[i]).r) = "prExtend"

RECURSIVE GroupsOf(_, _)
\* the code points rs after the group `group`, cut before every base
GroupsOf(rs, group) ==
    IF rs = <<>> THEN <<group>>
    ELSE IF IsBase(DecodeRune(Head(rs)).r)
         THEN <<group>> \o GroupsOf(Tail(rs), Head(rs))
         ELSE GroupsOf(Tail(rs), group \o Head(rs))

\* the groups base+marks of a text made of bases with marks
Groups(text) == GroupsOf(Tail(Runes(text)), Head(Runes(text)))

\* C14: in a text made of base characters each followed by zero or more
\* combining marks, every group base+marks is returned contiguous and in
\* its own order; only the order of the groups is reversed.
C14_MarksStayWithBase ==
    \A p \in Procs :
        (Succeeded(p) /\ IsBasesWithMarks(input[p])) =>
            ret[p].out.Text = Concat(Rev(Groups(input[p])))

\* a text of two different groups, the first with a mark, was reversed
C14_Witness ==
    /\ Succeeded("p1")
    /\ IsBasesWithMarks(input["p1"])
    /\ Len(Groups(input["p1"])) = 2
    /\ RuneCount(Groups(input["p1"])[1]) = 2
    /\ Groups(input["p1"])[1] # Groups(input["p1"])[2] \o CombiningAcute
    /\ ret["p1"].out.Text = Groups(input["p1"])[2] \o Groups(input["p1"])[1]

\* C15: a text of two flags F1 F2, each a pair of regional indicators, is
\* returned as F2 F1, each pair whole and in its own order.
C15_TwoFlags ==
    \A p \in Procs : \A f1, f2 \in Flags :
        (Succeeded(p) /\ input[p] = f1 \o f2) => ret[p].out.Text = f2 \o f1

\* two different flags were swapped, which neither the reversal of the four
\* indicators nor leaving the text alone gives
C15_Witness ==
    /\ Succeeded("p1")
    /\ ~prev["p1"].chained
    /\ input["p1"] = RegionalJ \o RegionalP \o RegionalJ \o RegionalJ
    /\ ret["p1"].out.Text = RegionalJ \o RegionalJ \o RegionalJ \o RegionalP
    /\ ret["p1"].out.Text # Concat(Rev(Runes(input["p1"])))

\* the junction of a and b is a cluster boundary of a ++ b
BoundaryAt(a, b) == Clusters(a \o b) = Clusters(a) \o Clusters(b)

\* the lengths k of the prefixes pat of text with text = pat repeated
Periods(text) ==
    {k \in 1..Len(text) :
        /\ Len(text) % k = 0
        /\ text = Repeat(SubSeq(text, 1, k), Len(text) \div k)}

\* C16: the reversal of a pattern repeated N times, the pattern starting and
\* ending on cluster boundaries when repeated, is the reversal of the pattern
\* repeated N times; and the reversal of a ++ b is reverse(b) ++ reverse(a)
\* whenever the junction of a and b is a cluster boundary.
C16_ReversalOfConcatenation ==
    \A p \in Procs :
        Succeeded(p) =>
            /\ \A k \in Periods(input[p]) :
                  LET pat == SubSeq(input[p], 1, k)
                      n == Len(input[p]) \div k
                  IN  (n = 1 \/ BoundaryAt(pat, pat)) =>
                          ret[p].out.Text = Repeat(ReverseString(pat), n)
            /\ \A k \in 0..Len(input[p]) :
                  LET a == SubSeq(input[p], 1, k)
                      b == SliceFrom(input[p], k)
                  IN  BoundaryAt(a, b) =>
                          ret[p].out.Text = ReverseString(b) \o ReverseString(a)

\* a pattern of two clusters, one of two code points, repeated three times was
\* reversed into the reversed pattern repeated three times
C16_Witness ==
    /\ Succeeded("p1")
    /\ ~prev["p1"].chained
    /\ \E k \in Periods(input["p1"]) :
          LET pat == SubSeq(input["p1"], 1, k)
          IN  /\ Len(input["p1"]) = 3 * k
              /\ Len(Clusters(pat)) = 2
              /\ RuneCount(pat) = 3
              /\ BoundaryAt(pat, pat)
              /\ ReverseString(pat) # pat
              /\ ret["p1"].out.Text = Repeat(ReverseString(pat), 3)

\* C17: a text in which every code point is a grapheme cluster of its own
\* is returned with its code points in reverse order; "Hello, World!" is
\* returned as "!dlroW ,olleH".
C17_CodePointsReversed ==
    \A p \in Procs :
        Succeeded(p) =>
            /\ Len(Clusters(input[p])) = RuneCount(input[p]) =>
                  ret[p].out.Text = Concat(Rev(Runes(input[p])))
            /\ input[p] = HelloWorld => ret[p].out.Text = DlroWolleH

\* "Hello, World!" was reversed
C17_Witness ==
    /\ Succeeded("p1")
    /\ input["p1"] = HelloWorld
    /\ Len(Clusters(input["p1"])) = 13
    /\ ret["p1"].out.Text = DlroWolleH

\* the positions of the vcs.revision settings with a non-empty value
RevisionSettings(info) ==
    {i \in 1..Len(info.Settings) :
        /\ info.Settings[i].Key = "vcs.revision"
        /\ info.Settings[i].Value # <<>>}

\* the revision shown: the value of the first such setting cut to at most 7
\* characters, "unknown" when there is none
ShownRevision(info) ==
    IF RevisionSettings(info) = {} THEN Unknown
    ELSE LET i == CHOOSE j \in RevisionSettings(info) :
                      \A k \in RevisionSettings(info) : j <= k
             v == info.Settings[i].Value
         IN  IF Len(v) <= 7 THEN v ELSE SubSeq(v, 1, 7)

\* C18: with build info available and a main version neither empty nor
\* "(devel)", GetServiceVersion returns "<version> (<rev>)", <rev> being the
\* value of the first vcs.revision setting with a non-empty value cut to at
\* most 7 characters, or "unknown" when there is no such setting.
C18_VersionWithRevision ==
    (server.built /\ buildInfo.ok
        /\ buildInfo.Version \notin {<<>>, serviceVersion}) =>
            /\ ~server.panic
            /\ server.Version =
                   buildInfo.Version \o <<32, 40>>
                       \o ShownRevision(buildInfo) \o <<41>>

\* "v1.2.3 (abcdef1)" was returned for a revision of 8 characters that
\* follows a setting of another key
C18_Witness ==
    /\ server.built
    /\ buildInfo.ok
    /\ buildInfo.Version = V123
    /\ Len(buildInfo.Settings) = 2
    /\ buildInfo.Settings[1].Key = "some.other.key"
    /\ buildInfo.Settings[2] =
           [Key |-> "vcs.revision", Value |-> SubSeq(RevisionFull, 1, 8)]
    /\ server.Version =
           V123 \o <<32, 40, 97, 98, 99, 100, 101, 102, 49, 41>>

\* C19: GetServiceVersion returns "unknown (devel)" without build info;
\* with a main version empty or "(devel)" it returns "<rev> (devel)", <rev>
\* being the revision of at most 7 characters or "unknown"; the revision
\* part never exceeds 7 characters, and the call never fails, whatever the
\* length of the revision.
C19_DevelVersion ==
    server.built =>
        /\ ~server.panic
        /\ ~buildInfo.ok =>
               server.Version =
                   Unknown \o <<32>> \o <<40, 100, 101, 118, 101, 108, 41>>
        /\ (buildInfo.ok /\ buildInfo.Version \in {<<>>, serviceVersion}) =>
               server.Version =
                   ShownRevision(buildInfo) \o <<32>>
                       \o <<40, 100, 101, 118, 101, 108, 41>>
        /\ IF buildInfo.ok /\ buildInfo.Version \notin {<<>>, serviceVersion}
           THEN Len(server.Version) <= Len(buildInfo.Version) + 3 + 7
           ELSE Len(server.Version) <= 7 + 1 + 7

\* "abc (devel)" was returned for a revision of 3 characters and an empty
\* main version
C19_Witness ==
    /\ server.built
    /\ ~server.panic
    /\ buildInfo.ok
    /\ buildInfo.Version = <<>>
    /\ Len(buildInfo.Settings) = 1
    /\ buildInfo.Settings[1] =
           [Key |-> "vcs.revision", Value |-> <<97, 98, 99>>]
    /\ server.Version = <<97, 98, 99, 32, 40, 100, 101, 118, 101, 108, 41>>

\* C20: a call of debugLog gives the logger exactly one message when the
\* MCP_TEXT_MIRROR_DEBUG_LOG environment variable is non-empty at the time
\* of the call and none when it is empty, and nothing else logs: k calls
\* with the variable set leave exactly k messages, in call order.
C20_DebugLogOncePerCall ==
    [][/\ \A p \in Procs :
              (pc[p] = "log" /\ pc'[p] = "return") =>
                  IF env # ""
                  THEN logged' = Append(logged,
                           [original |-> input[p], mirrored |-> outputText[p]])
                  ELSE logged' = logged
       /\ (\A p \in Procs : ~(pc[p] = "log" /\ pc'[p] = "return")) =>
              logged' = logged]_vars

\* two calls logged their messages while the variable was set, and a third
\* call of another input went through debugLog with the variable empty and
\* logged nothing
C20_Witness ==
    /\ Len(logged) = 2
    /\ logged[1] # logged[2]
    /\ env = ""
    /\ \E p \in Procs :
           /\ pc[p] = "return"
           /\ \A i \in 1..Len(logged) : logged[i].original # input[p]

\* C24: the context is looked at once, before the reversal: an invocation
\* that passed the check goes on to the reversal, the log and the return
\* whatever happens to its context, and it does return, with the reversed
\* text and a nil error.
C24_RunsToCompletion ==
    /\ [][\A p \in Procs :
              /\ (pc[p] = "reverse" /\ pc'[p] # pc[p]) => pc'[p] = "log"
              /\ (pc[p] = "log" /\ pc'[p] # pc[p]) => pc'[p] = "return"
              /\ (pc[p] = "return" /\ pc'[p] # pc[p]) =>
                     /\ pc'[p] = "returned"
                     /\ ret'[p].err = NilError
                     /\ ret'[p].out.Text = ReverseString(input[p])]_vars
    /\ \A p \in Procs :
           (pc[p] = "reverse") ~>
               (/\ pc[p] = "returned"
                /\ ret[p].err = NilError
                /\ ret[p].out.Text = ReverseString(input[p]))

\* an invocation whose context was cancelled after the check returned the
\* reversed text and no error
C24_Witness ==
    /\ pc["p1"] = "returned"
    /\ ctx["p1"] = ContextCanceled
    /\ ret["p1"].err = NilError
    /\ input["p1"] = Woman
    /\ ret["p1"].out.Text = Woman
    /\ logged # <<>>

\* the invocations in progress that have not reached their log yet, and the
\* invocations turned down
NotLogging ==
    {p \in Procs :
        \/ pc[p] \in {"entry", "reverse", "log"}
        \/ pc[p] = "returned" /\ ret[p].err # NilError}

\* C25: a call that returns without error passes its log exactly once, and
\* there, with debug mode enabled, it appends one entry of its own input and
\* its own output; with debug mode disabled it appends nothing; a call
\* turned down for cancellation appends nothing; so the entries never
\* outnumber the calls that got through.  What a call returns is the
\* reversal of its input whether or not anything was logged.
C25_OneEntryPerSuccessfulCall ==
    /\ [](/\ \A i \in 1..Len(logged) :
                 logged[i].mirrored = ReverseString(logged[i].original)
          /\ Len(logged) + Cardinality(NotLogging) <= calls)
    /\ [][\A p \in Procs :
              /\ (pc[p] = "entry" /\ pc'[p] = "returned") =>
                     ret'[p].err # NilError /\ logged' = logged
              /\ (pc[p] = "entry" /\ pc'[p] = "reverse") => logged' = logged
              /\ (pc[p] = "reverse" /\ pc'[p] # pc[p]) =>
                     pc'[p] = "log" /\ logged' = logged
              /\ (pc[p] = "log" /\ pc'[p] # pc[p]) =>
                     /\ pc'[p] = "return"
                     /\ logged' =
                            IF env # ""
                            THEN logged
                                     \o <<[original |-> input[p],
                                           mirrored |->
                                               ReverseString(input[p])]>>
                            ELSE logged
              /\ (pc[p] = "return" /\ pc'[p] # pc[p]) =>
                     /\ logged' = logged
                     /\ ret'[p] =
                            Returned("nil",
                                     MirrorOutput(ReverseString(input[p])),
                                     NilError)]_vars

\* of three calls with debug mode enabled two returned without error and
\* left the two entries, the later one that of p1, and the call of p2 was
\* turned down
C25_Witness ==
    /\ calls = 3
    /\ env # ""
    /\ Len(logged) = 2
    /\ pc["p1"] = "returned"
    /\ ret["p1"].err = NilError
    /\ Len(Clusters(input["p1"])) = 2
    /\ logged[2] =
           [original |-> input["p1"], mirrored |-> ret["p1"].out.Text]
    /\ logged[1].original # input["p1"]
    /\ pc["p2"] = "returned"
    /\ ret["p2"].err # NilError

\* C21: wrapError returns nil for the nil error, whatever the message and
\* the arguments; for another error it returns an error that is not nil,
\* whose text is "<msg>: <text of err>", msg being formatted with the
\* arguments only when there are arguments, and which unwraps to err.
C21_WrapError ==
    wrapCall.called =>
        IF wrapCall.err = NilError THEN wrapCall.result = NilError
        ELSE /\ wrapCall.result # NilError
             /\ wrapCall.result[1] =
                    (IF wrapCall.args = <<>> THEN Join(wrapCall.msg)
                     ELSE Sprintf(wrapCall.msg, wrapCall.args))
                        \o ": " \o wrapCall.err[1]
             /\ ErrorsIs(wrapCall.result, wrapCall.err)
             /\ Tail(wrapCall.result) = wrapCall.err
             /\ (wrapCall.args = <<>> /\ wrapCall.msg = <<"%d", "%%">>) =>
                    wrapCall.result[1] = "%d%%: " \o wrapCall.err[1]

\* "failed at step %d%s" with 42 and "ERR001" wrapped the test error
C21_Witness ==
    /\ wrapCall.called
    /\ wrapCall.err = ErrTest
    /\ wrapCall.msg = <<"failed at step ", "%d", "%s">>
    /\ Len(wrapCall.args) = 2
    /\ wrapCall.result[1] = "failed at step 42ERR001: test error"
    /\ ErrorsIs(wrapCall.result, ErrTest)

\* C22: run returns nil exactly when runServer returns nil, and else an
\* error that wraps the error of runServer: the error of a cancelled context
\* wraps context.Canceled, and the nil context gives errNilContext without
\* the server being run.  main calls logger.Fatal once when run returned an
\* error and never when run returned nil.
C22_StartupErrorPath ==
    /\ mainPc \in {"exitOnError", "exit", "return"} =>
           /\ runErr = NilError <=> runServerErr = NilError
           /\ runErr # NilError =>
                  /\ ErrorsIs(runErr, runServerErr)
                  /\ runErr[1] = "MCP server failed to run: " \o runServerErr[1]
           /\ defaultCtx = "canceled" => ErrorsIs(runErr, ContextCanceled)
           /\ defaultCtx = "nil" =>
                  ErrorsIs(runErr, ErrNilContext) /\ ~serverRan
    /\ mainPc = "exit" =>
           runErr # NilError /\ fatals = <<<<"Error:", runErr[1]>>>>
    /\ mainPc = "return" => runErr = NilError /\ fatals = <<>>
    /\ mainPc \notin {"exit", "return"} => fatals = <<>>

\* main ended in logger.Fatal for the nil context: the error wraps
\* errNilContext and the server was constructed but not run
C22_Witness ==
    /\ mainPc = "exit"
    /\ defaultCtx = "nil"
    /\ server.built
    /\ ~serverRan
    /\ runErr =
           <<"MCP server failed to run: given context is nil",
             "given context is nil">>
    /\ Len(fatals) = 1


\* what an open of the file at path for appending needs: path is no
\* directory, it lies in a directory, and a file already there may be written
CanOpen(f, path) ==
    /\ path \notin f.dirs
    /\ SubSeq(path, 1, Len(path) - 1) \in f.dirs
    /\ path \notin f.locked

\* the lines of the file at path, none when there is no such file
Lines(f, path) == IF path \in DOMAIN f.files THEN f.files[path] ELSE <<>>

\* C23: newLogger always returns a usable logger. With toFile false it writes
\* to standard error and the file system is left as it was; with toFile true
\* and a successful open it writes to the file at the cleaned path, after the
\* lines already there; with toFile true and a failed open it writes to
\* standard error and no file is created. Each line given to the logger is
\* then appended to where it writes and to nothing else.
C23_NewLogger ==
    /\ [](newLog.out = "file" => newLog.path \in DOMAIN fs.files)
    /\ [][/\ newLog.out = "none" /\ newLog'.out # "none" =>
              LET path == Clean(loggerCall.path)
              IN  /\ newLog'.out \in {"stderr", "file"}
                  /\ stderr' = stderr
                  /\ ~loggerCall.toFile =>
                         newLog'.out = "stderr" /\ fs' = fs
                  /\ loggerCall.toFile /\ CanOpen(fs, path) =>
                         /\ newLog'.out = "file"
                         /\ newLog'.path = path
                         /\ fs'.dirs = fs.dirs
                         /\ DOMAIN fs'.files = DOMAIN fs.files \cup {path}
                         /\ \A p \in DOMAIN fs'.files :
                                fs'.files[p] = Lines(fs, p)
                  /\ loggerCall.toFile /\ ~CanOpen(fs, path) =>
                         newLog'.out = "stderr" /\ fs' = fs
          /\ newLog.out # "none" /\ newLog'.printed # newLog.printed =>
              \E msg \in {"test log entry", "test message"} :
                  IF newLog.out = "file"
                  THEN /\ stderr' = stderr
                       /\ fs' = [fs EXCEPT !.files[newLog.path] =
                                              Append(@, msg)]
                  ELSE /\ stderr' = Append(stderr, msg)
                       /\ fs' = fs]_vars

\* a logger made for tmp/./test.log has appended two lines to the file that
\* was there
C23_Witness ==
    /\ loggerCall = [toFile |-> TRUE, path |-> <<"tmp", ".", "test.log">>]
    /\ newLog.out = "file"
    /\ newLog.path = <<"tmp", "test.log">>
    /\ fs.files[newLog.path] = <<"old entry", "test log entry", "test message">>
    /\ stderr = <<>>

====
